---- MODULE Spec2Model ----
(***************************************************************************)
(* CoffeePipeline: the validators of log_utils.py / load_coffee_logs.py,   *)
(* the normalizer preprocess_data and the two pipeline drivers             *)
(* (load_coffee_logs.py for coffee.guru, load_beanconqueror_logs.py for    *)
(* Beanconqueror), as state machines.                                      *)
(*                                                                         *)
(* A string is a sequence of atoms: the characters " ", "/", the digits,   *)
(* and words / label tokens ("Very", "Bean:") taken as unsplittable units. *)
(* A cell of a pandas column is a tagged value: a string, a Python int or  *)
(* a missing value.  A pandas Series is a function from its index labels   *)
(* (0-based row numbers, possibly with gaps after a filter) to cells.      *)
(***************************************************************************)
EXTENDS Integers, Sequences, FiniteSets, TLC

VARIABLES
    call,       \* library harness: the validator call under test
    ret,        \* library harness: what the call returned or raised
    driver,     \* which driver script runs: "coffee" or "beanconqueror"
    batch,      \* the rows of the downloaded source file
    pc,         \* the statement of __main__ the run is at
    hook,       \* TRUE once sys.excepthook is catch_exception
    atexitReg,  \* TRUE once atexit.register(upload_log_file, ...) ran
    err,        \* the exception that escaped (NoErr while none has)
    norm,       \* what preprocess_data returned or raised in this run
    db,         \* the SQLite database: staging table, final table
    localFile,  \* TRUE once preprocess_data wrote the local data file
    events,     \* the run's external effects, in order
    exitStatus  \* the process exit status (-1 while running)

libVars == <<call, ret>>
runVars == <<driver, batch, pc, hook, atexitReg, err, norm, db, localFile,
             events, exitStatus>>
vars == <<call, ret, driver, batch, pc, hook, atexitReg, err, norm, db,
          localFile, events, exitStatus>>

-----------------------------------------------------------------------------
(* Bounds of the model *)

\* the largest number of rows of a column handed to a validator
MaxRows == 3
\* the largest number of rows of a batch a driver run downloads
MaxBatch == 2

-----------------------------------------------------------------------------
(* Cells, strings, Series *)

S(str) == [t |-> "str", v |-> str]
I(n) == [t |-> "int", v |-> n]
NaN == [t |-> "null", v |-> 0]

isnull(c) == c.t = "null"

WS == {" "}
Digits == {"0", "1", "2", "3", "4", "5", "6", "7", "8", "9"}

RECURSIVE SortedSeq(_)
SortedSeq(X) ==
    IF X = {} THEN <<>>
    ELSE LET m == CHOOSE a \in X : \A b \in X : a <= b
         IN <<m>> \o SortedSeq(X \ {m})

Range(f) == {f[i] : i \in DOMAIN f}

Max(X) == CHOOSE a \in X : \A b \in X : b <= a

\* the Series with rows 0..Len(vals)-1 holding vals
SeriesOf(vals) == [r \in 0 .. Len(vals) - 1 |-> vals[r + 1]]

\* col[keep]: the rows that the boolean Series keep selects, labels kept
Filter(col, keep) == [r \in {x \in DOMAIN col : keep[x]} |-> col[r]]

\* Series.index.tolist() / Series.tolist()
IndexList(col) == SortedSeq(DOMAIN col)
ValueList(col) == [i \in 1 .. Cardinality(DOMAIN col) |-> col[IndexList(col)[i]]]

\* str.split(' '): cut at every single separator atom, keeping empty pieces
RECURSIVE str_split(_, _)
str_split(s, sep) ==
    IF s = <<>> THEN << <<>> >>
    ELSE LET rest == str_split(Tail(s), sep)
         IN IF Head(s) = sep
               THEN << <<>> >> \o rest
               ELSE << <<Head(s)>> \o Head(rest) >> \o Tail(rest)

-----------------------------------------------------------------------------
(* Configuration (config.yml): the vocabularies and the grinder ranges *)

adverbs == { <<"Very">> }
flavors == { <<"Sweet">> }
balance == { <<"Heavy">> }

-----------------------------------------------------------------------------
(* check_scores *)

\* a check_scores that stops at the first unscored row
unscored_first(score_col) ==
    LET zeros == {r \in DOMAIN score_col :
                    score_col[r].t = "int" /\ score_col[r].v = 0}
    IN IF zeros = {} THEN <<>>
       ELSE <<CHOOSE r \in zeros : \A q \in zeros : r <= q>>

\* score_col[score_col == 0].index.tolist(); a missing value is not 0
unscored_idx(score_col) ==
    SortedSeq({r \in DOMAIN score_col :
                 score_col[r].t = "int" /\ score_col[r].v = 0})

check_scores(score_col) ==
    IF unscored_idx(score_col) # <<>>
       THEN [kind |-> "ValueError", rows |-> unscored_idx(score_col)]
       ELSE [kind |-> "ok", rows |-> <<>>]

-----------------------------------------------------------------------------
(* validate_text *)

\* the cells of one row of note_col.str.split(' ', expand=True), before the
\* padding to the widest row: a missing value gives one missing cell
SplitCell(c) == IF c.t = "str" THEN str_split(c.v, " ") ELSE <<>>

\* the number of columns of the expanded frame
ExpandWidth(note_col) ==
    IF DOMAIN note_col = {} THEN 0
    ELSE Max({IF note_col[r].t = "str" THEN Len(SplitCell(note_col[r])) ELSE 1 :
                r \in DOMAIN note_col})

\* pd.concat(...).drop_duplicates().to_dict(): of the rows listed in cat (in
\* order), those whose value has not appeared earlier in cat
DropDuplicatesDict(note_col, cat) ==
    LET kept == {cat[i] : i \in {k \in 1 .. Len(cat) :
                     \A j \in 1 .. k - 1 : note_col[cat[j]] # note_col[cat[k]]}}
    IN [r \in kept |-> note_col[r]]

NoRows == [r \in {} |-> NaN]

\* the rows whose first word is not a valid adverb (a missing cell is one)
invalid_adverbs(note_col, adverb_list) ==
    {r \in DOMAIN note_col :
        \/ Len(SplitCell(note_col[r])) < 1
        \/ SplitCell(note_col[r])[1] \notin adverb_list}

\* a validate_text that lets rows without a second word through
blank_adjectives_tolerated(note_col) == {}

\* "Find rows that are missing an adjective"
blank_adjectives(note_col) ==
    {r \in DOMAIN note_col : Len(SplitCell(note_col[r])) < 2}

\* the rows that have a second word and it is not a valid adjective
\* a validate_text that lets any second word through
invalid_adjectives_ignored(note_col, adjective_list) == {}

invalid_adjectives(note_col, adjective_list) ==
    {r \in DOMAIN note_col :
        /\ Len(SplitCell(note_col[r])) >= 2
        /\ SplitCell(note_col[r])[2] \notin adjective_list}

\* kind: "ok" or the exception raised; rows: the row -> value dictionary of
\* the ValueError message
validate_text(note_col, adverb_list, adjective_list) ==
    LET width == ExpandWidth(note_col)
        \* with a third column, a Python list (.tolist()) is appended per
        \* extra column to the Series in unexpected_vals
        has_list == width > 2
        cat == SortedSeq(invalid_adverbs(note_col, adverb_list))
                 \o SortedSeq(blank_adjectives(note_col))
                 \o SortedSeq(invalid_adjectives(note_col, adjective_list))
    IN  IF width < 2
           \* notes['adverbs'] (no column 0) or notes['adjectives'] (no column 1)
           THEN [kind |-> "KeyError", rows |-> NoRows]
        ELSE IF has_list
           \* pd.concat refuses the list among the Series
           THEN [kind |-> "TypeError", rows |-> NoRows]
        ELSE IF cat # <<>>
           THEN [kind |-> "ValueError", rows |-> DropDuplicatesDict(note_col, cat)]
        ELSE [kind |-> "ok", rows |-> NoRows]

-----------------------------------------------------------------------------
(* validate_grind_settings *)

DigitVal(d) ==
    CASE d = "0" -> 0 [] d = "1" -> 1 [] d = "2" -> 2 [] d = "3" -> 3
      [] d = "4" -> 4 [] d = "5" -> 5 [] d = "6" -> 6 [] d = "7" -> 7
      [] d = "8" -> 8 [] d = "9" -> 9

RECURSIVE lstrip(_)
lstrip(s) == IF s # <<>> /\ Head(s) \in WS THEN lstrip(Tail(s)) ELSE s

RECURSIVE rstrip(_)
rstrip(s) ==
    IF s # <<>> /\ s[Len(s)] \in WS THEN rstrip(SubSeq(s, 1, Len(s) - 1)) ELSE s

RECURSIVE DecimalValue(_)
DecimalValue(s) ==
    IF s = <<>> THEN 0
    ELSE 10 * DecimalValue(SubSeq(s, 1, Len(s) - 1)) + DigitVal(s[Len(s)])

\* int(str): surrounding whitespace is ignored, the rest must be digits
int_ok(str) ==
    LET core == rstrip(lstrip(str))
    IN core # <<>> /\ \A i \in 1 .. Len(core) : core[i] \in Digits

int_of(str) == DecimalValue(rstrip(lstrip(str)))

\* pd.api.types.is_integer: true of an int object, false of any string
is_integer(c) == c.t = "int"

\* whether int() accepts the cell
cast_ok(c) == c.t = "int" \/ (c.t = "str" /\ int_ok(c.v))

\* Series.astype(int) succeeds
astype_int_ok(grind_col) == \A r \in DOMAIN grind_col : cast_ok(grind_col[r])

astype_int(grind_col) ==
    [r \in DOMAIN grind_col |->
        IF grind_col[r].t = "int" THEN grind_col[r] ELSE I(int_of(grind_col[r].v))]

\* the first cell astype(int) fails on decides the exception: int(None) is a
\* TypeError, which the except ValueError clause does not catch
first_bad(grind_col) ==
    grind_col[CHOOSE r \in DOMAIN grind_col :
                 /\ ~cast_ok(grind_col[r])
                 /\ \A q \in DOMAIN grind_col : q < r => cast_ok(grind_col[q])]

\* a range check that excludes its end points
between_exclusive(v, min_val, max_val) == min_val < v /\ v < max_val

\* Series.between(min_val, max_val, inclusive='both'), of one value
between(v, min_val, max_val) == min_val <= v /\ v <= max_val

GrindOk == [kind |-> "ok", what |-> "", rows |-> <<>>, vals |-> <<>>]

\* kind: "ok" or the exception raised; what: which message; rows, vals: the
\* index.tolist() and tolist() the message prints
validate_grind_settings(grind_col, min_val, max_val) ==
    IF ~astype_int_ok(grind_col)
       THEN IF isnull(first_bad(grind_col))
               THEN [kind |-> "TypeError", what |-> "", rows |-> <<>>, vals |-> <<>>]
            ELSE LET non_int_vals == Filter(grind_col,
                         [r \in DOMAIN grind_col |-> ~is_integer(grind_col[r])])
                 IN [kind |-> "ValueError", what |-> "non_integer",
                     rows |-> IndexList(non_int_vals),
                     vals |-> ValueList(non_int_vals)]
    ELSE LET ints == astype_int(grind_col)
             invalid_vals == Filter(ints,
                 [r \in DOMAIN ints |-> ~between(ints[r].v, min_val, max_val)])
         IN IF DOMAIN invalid_vals # {}
               THEN [kind |-> "ValueError", what |-> "out_of_range",
                     rows |-> IndexList(invalid_vals),
                     vals |-> ValueList(invalid_vals)]
               ELSE GrindOk

-----------------------------------------------------------------------------
(* check_nan_values *)

\* a column of a frame whose rows are records: labels 0 .. n-1
Col(logs, c) == [r \in 0 .. Len(logs) - 1 |-> logs[r + 1][c]]

\* pd.to_datetime(unit='s', utc=True).dt.tz_convert('EST')
\*   .dt.strftime('%Y-%m-%d %I:%M%p'), the date kept as a day number
strftime_est(ts) ==
    LET local == ts - 5 * 3600
        secs == local % 86400
        h == secs \div 3600
    IN [day |-> local \div 86400,
        hour |-> IF h % 12 = 0 THEN 12 ELSE h % 12,
        minute |-> (secs % 3600) \div 60,
        ampm |-> IF h < 12 THEN "AM" ELSE "PM"]

\* the user input columns of the coffee.guru frame, in the order of the loop
NanColumns == <<"Score", "Bean", "Grind", "Flavor", "Balance">>

nan_idx(logs, c) == SortedSeq({r \in 0 .. Len(logs) - 1 : isnull(logs[r + 1][c])})

nan_times(logs, c) ==
    [i \in 1 .. Len(nan_idx(logs, c)) |->
        IF isnull(logs[nan_idx(logs, c)[i] + 1].Timestamp) THEN NaN
        ELSE S(strftime_est(logs[nan_idx(logs, c)[i] + 1].Timestamp.v))]

\* The message of a column with a missing value is formatted with
\* nan_idx.tolist(); nan_idx is already a list, so the first such column
\* raises AttributeError and no message is ever built.
check_nan_values(logs) ==
    IF \E i \in 1 .. Len(NanColumns) : nan_idx(logs, NanColumns[i]) # <<>>
       THEN [kind |-> "AttributeError", msgs |-> <<>>]
       ELSE [kind |-> "ok", msgs |-> <<>>]

-----------------------------------------------------------------------------
(* The notes column: label removal, split on "/", whitespace clean-up *)

CoffeeLabels == {"Bean:", "Grinder:", "Grind:", "Flavor:", "Balance:"}
BeanconquerorLabels == {"Flavor:", "Balance:"}

StartsWith(s, p) == Len(s) >= Len(p) /\ SubSeq(s, 1, Len(p)) = p

\* str.replace(pat, repl) with a literal pattern
RECURSIVE str_replace(_, _, _)
str_replace(s, pat, repl) ==
    IF s = <<>> THEN <<>>
    ELSE IF StartsWith(s, pat)
       THEN repl \o str_replace(SubSeq(s, Len(pat) + 1, Len(s)), pat, repl)
       ELSE <<Head(s)>> \o str_replace(Tail(s), pat, repl)

\* str.replace('(Bean:)|(Grinder:)|...', '', regex=True)
RECURSIVE remove_labels(_, _)
remove_labels(s, labels) ==
    IF s = <<>> THEN <<>>
    ELSE IF Head(s) \in labels THEN remove_labels(Tail(s), labels)
    ELSE <<Head(s)>> \o remove_labels(Tail(s), labels)

\* str.split(r'\s*\/\s*'): the whitespace around a "/" goes with the "/"
split_slash(s) ==
    LET raw == str_split(s, "/")
    IN [k \in 1 .. Len(raw) |->
          LET a == IF k > 1 THEN lstrip(raw[k]) ELSE raw[k]
          IN IF k < Len(raw) THEN rstrip(a) ELSE a]

\* replace(r'^\s|\s$', ''): one whitespace character at each end, not a run
strip_one(s) ==
    LET a == IF s # <<>> /\ Head(s) \in WS THEN Tail(s) ELSE s
    IN IF a # <<>> /\ a[Len(a)] \in WS THEN SubSeq(a, 1, Len(a) - 1) ELSE a

\* replace(r'\s{2,}', ' ')
RECURSIVE collapse_ws(_)
collapse_ws(s) ==
    IF s = <<>> THEN <<>>
    ELSE IF Len(s) >= 2 /\ s[1] \in WS /\ s[2] \in WS
       THEN <<" ">> \o collapse_ws(lstrip(s))
       ELSE <<Head(s)>> \o collapse_ws(Tail(s))

\* the pieces of one row's notes cell (none for a missing cell)
note_pieces(c, labels) ==
    IF c.t = "str" THEN split_slash(remove_labels(c.v, labels)) ELSE <<>>

\* the number of columns of notes.str.split(..., expand=True)
notes_width(note_col, labels) ==
    IF DOMAIN note_col = {} THEN 0
    ELSE Max({IF note_col[r].t = "str" THEN Len(note_pieces(note_col[r], labels))
              ELSE 1 : r \in DOMAIN note_col})

\* a parsing that hands out the pieces from the last one to the first
notes_cell_reversed(c, labels, k) ==
    LET n == Len(note_pieces(c, labels))
    IN IF k <= n
          THEN S(collapse_ws(strip_one(note_pieces(c, labels)[n + 1 - k])))
          ELSE NaN

\* cell k of a row of the cleaned notes frame; a short row is padded
notes_cell(c, labels, k) ==
    IF k <= Len(note_pieces(c, labels))
       THEN S(collapse_ws(strip_one(note_pieces(c, labels)[k])))
       ELSE NaN

-----------------------------------------------------------------------------
(* preprocess_data of load_coffee_logs.py *)

\* config['grind_setting_ranges'], keyed by the normalized grinder name
grind_setting_ranges == [g \in { <<"encore">> } |-> [min |-> 10, max |-> 30]]

\* str.lower() on the atoms the grinder names are made of
lower_atom(a) ==
    CASE a = "Encore" -> "encore"
      [] a = "Mystery" -> "mystery"
      [] OTHER -> a

lower(s) == [i \in 1 .. Len(s) |-> lower_atom(s[i])]

\* re.sub(r'\s+|-', '_', s)
RECURSIVE normalize_grinder(_)
normalize_grinder(s) ==
    IF s = <<>> THEN <<>>
    ELSE IF Head(s) \in WS THEN <<"_">> \o normalize_grinder(lstrip(s))
    ELSE IF Head(s) = "-" THEN <<"_">> \o normalize_grinder(Tail(s))
    ELSE <<Head(s)>> \o normalize_grinder(Tail(s))

\* Series.unique(): the distinct values in order of first appearance
RECURSIVE unique(_)
unique(vals) ==
    IF vals = <<>> THEN <<>>
    ELSE LET rest == unique(SubSeq(vals, 1, Len(vals) - 1))
             last == vals[Len(vals)]
         IN IF last \in Range(rest) THEN rest ELSE Append(rest, last)

StepOk == [kind |-> "ok", step |-> "", validated |-> <<>>]

\* a loop that checks a grinder's rows before it looks its range up
RECURSIVE grinder_loop_validate_first(_, _, _)
grinder_loop_validate_first(logs, grinders, validated) ==
    IF grinders = <<>> THEN [StepOk EXCEPT !.validated = validated]
    ELSE [kind |-> "ValueError", step |-> "validate_grind_settings",
          validated |-> Append(validated, Head(grinders))]

\* the loop over logs['Grinder'].unique(): the range lookup, then the range
\* check of that grinder's rows; the first failure ends the loop.
\* validated: the grinders whose rows validate_grind_settings was called on
RECURSIVE grinder_loop(_, _, _)
grinder_loop(logs, grinders, validated) ==
    IF grinders = <<>> THEN [StepOk EXCEPT !.validated = validated]
    ELSE LET grinder == Head(grinders)
         IN IF grinder.t # "str"
               \* grinder.lower() on a missing value
               THEN [kind |-> "AttributeError", step |-> "grinder_lookup",
                     validated |-> validated]
            ELSE LET grinder_name == normalize_grinder(lower(grinder.v))
                 IN IF grinder_name \notin DOMAIN grind_setting_ranges
                       THEN [kind |-> "ValueError", step |-> "grinder_lookup",
                             validated |-> validated]
                    ELSE LET rng == grind_setting_ranges[grinder_name]
                             part == Filter(Col(logs, "Grind"),
                                            [r \in 0 .. Len(logs) - 1 |->
                                               logs[r + 1].Grinder = grinder])
                             res == validate_grind_settings(part, rng.min, rng.max)
                         IN IF res.kind # "ok"
                               THEN [kind |-> res.kind,
                                     step |-> "validate_grind_settings",
                                     validated |-> Append(validated, grinder)]
                               ELSE grinder_loop(logs, Tail(grinders),
                                                 Append(validated, grinder))

\* the frame after the notes column is replaced by its five columns
coffee_parse(logs) ==
    [i \in 1 .. Len(logs) |->
        [Timestamp |-> logs[i].Timestamp,
         Coffee |-> IF logs[i].Coffee.t = "str"
                       THEN S(str_replace(logs[i].Coffee.v, <<" ", "g">>, <<>>))
                       ELSE NaN,
         Score |-> logs[i].Score,
         Bean |-> notes_cell(logs[i].Note, CoffeeLabels, 1),
         Grinder |-> notes_cell(logs[i].Note, CoffeeLabels, 2),
         Grind |-> notes_cell(logs[i].Note, CoffeeLabels, 3),
         Flavor |-> notes_cell(logs[i].Note, CoffeeLabels, 4),
         Balance |-> notes_cell(logs[i].Note, CoffeeLabels, 5)]]

\* the validation steps of preprocess_data in the order of its statements;
\* each raises out of preprocess_data, so the first failing one decides
coffee_validate(logs) ==
    LET nan == check_nan_values(logs)
        score == check_scores(Col(logs, "Score"))
        flavor == validate_text(Col(logs, "Flavor"), adverbs, flavors)
        bal == validate_text(
                   Filter(Col(logs, "Balance"),
                          [r \in 0 .. Len(logs) - 1 |->
                             logs[r + 1].Balance # S(<<"Balanced">>)]),
                   adverbs, balance)
    IN IF nan.kind # "ok"
          THEN [kind |-> nan.kind, step |-> "check_nan_values", validated |-> <<>>]
       ELSE IF score.kind # "ok"
          THEN [kind |-> score.kind, step |-> "check_scores", validated |-> <<>>]
       ELSE IF flavor.kind # "ok"
          THEN [kind |-> flavor.kind, step |-> "validate_text_flavor",
                validated |-> <<>>]
       ELSE IF bal.kind # "ok"
          THEN [kind |-> bal.kind, step |-> "validate_text_balance",
                validated |-> <<>>]
       ELSE grinder_loop(logs, unique(ValueList(Col(logs, "Grinder"))), <<>>)

\* kind/step: how the call ended; logs: the frame it returned; wrote: whether
\* logs.to_csv(config['local_fname']) was reached; parsed: the frame with the
\* notes columns in place of the notes cell, if the parsing got that far;
\* validated: the grinders validate_grind_settings was called for
preprocess_data(logs) ==
    IF logs # <<>> /\ "Note" \notin DOMAIN logs[1]
       \* logs['Note'] on a frame without that column
       THEN [kind |-> "KeyError", step |-> "read_notes", logs |-> <<>>,
             wrote |-> FALSE, parsed |-> <<>>, validated |-> <<>>]
    ELSE IF notes_width(Col(logs, "Note"), CoffeeLabels) # 5
       \* notes.columns = [five names] on a frame of another width
       THEN [kind |-> "ValueError", step |-> "parse_notes", logs |-> <<>>,
             wrote |-> FALSE, parsed |-> <<>>, validated |-> <<>>]
    ELSE LET parsed == coffee_parse(logs)
             v == coffee_validate(parsed)
         IN [kind |-> v.kind, step |-> v.step,
             logs |-> IF v.kind = "ok" THEN parsed ELSE <<>>,
             wrote |-> TRUE, parsed |-> parsed, validated |-> v.validated]

-----------------------------------------------------------------------------
(* preprocess_data of load_beanconqueror_logs.py, on the joined frame *)

\* the joined frame after the note column is replaced by its two columns
beanconqueror_parse(logs) ==
    [i \in 1 .. Len(logs) |->
        [updated_at |-> logs[i].updated_at,
         rating |-> logs[i].rating,
         bean |-> logs[i].bean,
         grinder |-> logs[i].grinder,
         grind_size |-> logs[i].grind_size,
         flavor |-> notes_cell(logs[i].note, BeanconquerorLabels, 1),
         balance |-> notes_cell(logs[i].note, BeanconquerorLabels, 2)]]

\* check_nan_values is called with columns= and timestamp_col=, which
\* log_utils.check_nan_values(logs) does not take: the call raises TypeError
\* whenever it is reached, and nothing after it in the function runs.
beanconqueror_preprocess_data(logs) ==
    IF notes_width(Col(logs, "note"), BeanconquerorLabels) # 2
       THEN [kind |-> "ValueError", step |-> "parse_notes", logs |-> <<>>,
             wrote |-> FALSE, parsed |-> <<>>, validated |-> <<>>]
       ELSE [kind |-> "TypeError", step |-> "check_nan_values", logs |-> <<>>,
             wrote |-> FALSE, parsed |-> beanconqueror_parse(logs),
             validated |-> <<>>]

-----------------------------------------------------------------------------
(* The source files a run can download *)

SeqsUpTo(X, n) == UNION {[1 .. k -> X] : k \in 0 .. n}

Note(grinder, grind, flavor, bal) ==
    <<"Bean:", " ", "Kenya", " ", "/", " ", "Grinder:", " ">> \o grinder
      \o <<" ", "/", " ", "Grind:", " ">> \o grind
      \o <<" ", "/", " ", "Flavor:", " ">> \o flavor
      \o <<" ", "/", " ", "Balance:", " ">> \o bal

CoffeeRow(score, note) ==
    [Timestamp |-> I(1700000000), Coffee |-> S(<<"1", "5", " ", "g">>),
     Score |-> score, Note |-> S(note)]

CoffeeRows ==
    LET enc == <<"Encore">>
        g18 == <<"1", "8">>
        sweet == <<"Very", " ", "Sweet">>
        heavy == <<"Very", " ", "Heavy">>
        good == Note(enc, g18, sweet, heavy)
    IN { CoffeeRow(I(4), good),
         CoffeeRow(I(0), good),
         CoffeeRow(I(7), good),
         CoffeeRow(NaN, good),
         CoffeeRow(I(4), Note(enc, g18, sweet, <<"Balanced">>)),
         CoffeeRow(I(4), Note(enc, g18, <<"Bad", " ", "Sweet">>, heavy)),
         CoffeeRow(I(4), Note(enc, g18, <<"Very">>, heavy)),
         CoffeeRow(I(4), Note(enc, g18, sweet, <<"Very", " ", "Light">>)),
         CoffeeRow(I(4), Note(enc, <<"abc">>, sweet, heavy)),
         CoffeeRow(I(4), Note(enc, <<"4", "5">>, sweet, heavy)),
         CoffeeRow(I(4), Note(<<"Mystery">>, g18, sweet, heavy)),
         \* two spaces after the first label
         CoffeeRow(I(4), <<"Bean:", " ">> \o Tail(good)),
         \* a notes cell without its last segment
         CoffeeRow(I(4), <<"Bean:", " ", "Kenya", " ", "/", " ", "Grinder:", " ",
                           "Encore", " ", "/", " ", "Grind:", " ", "1", "8", " ",
                           "/", " ", "Flavor:", " ", "Very", " ", "Sweet">>),
         \* a notes cell with a sixth segment
         CoffeeRow(I(0), good \o <<" ", "/", " ", "Extra">>) }

BeanconquerorRow(rating, note) ==
    [updated_at |-> I(1700000000), rating |-> rating, bean |-> S(<<"Kenya">>),
     grinder |-> S(<<"Encore">>), grind_size |-> S(<<"1", "8">>),
     note |-> S(note)]

BeanconquerorRows ==
    { BeanconquerorRow(I(4), <<"Flavor:", " ", "Very", " ", "Sweet", " ", "/", " ",
                               "Balance:", " ", "Very", " ", "Heavy">>),
      BeanconquerorRow(I(0), <<"Flavor:", " ", "Bad", " ", "Sweet", " ", "/", " ",
                               "Balance:", " ", "Very", " ", "Heavy">>),
      BeanconquerorRow(I(4), <<"Flavor:", " ", " ", "Very", " ", "Sweet", " ", "/",
                               " ", "Balance:", " ", "Very", " ", "Heavy">>),
      BeanconquerorRow(I(4), <<"Flavor:", " ", "Very", " ", "Sweet">>),
      BeanconquerorRow(I(4), <<"Flavor:", " ", "Very", " ", "Sweet", " ", "/", " ",
                               "Balance:", " ", "Balanced", " ", "/", " ",
                               "Extra">>),
      \* a brew without a rating
      BeanconquerorRow(NaN, <<"Flavor:", " ", "Very", " ", "Sweet", " ", "/", " ",
                              "Balance:", " ", "Very", " ", "Heavy">>) }

Batches(d) ==
    IF d = "coffee" THEN SeqsUpTo(CoffeeRows, MaxBatch)
    ELSE SeqsUpTo(BeanconquerorRows, MaxBatch)

-----------------------------------------------------------------------------
(* The validators called on their own: one call per behaviour, its argument *)
(* drawn from the columns of at most MaxRows rows over a few cells          *)

TextCells ==
    { S(<<"Very", " ", "Sweet">>),
      S(<<"Very">>),
      S(<<"Bad", " ", "Sweet">>),
      S(<<"Very", " ", "Bad">>),
      S(<<"Very", " ", "Sweet", " ", "Extra">>) }

GrindCells ==
    { S(<<"1", "8">>), S(<<"2", "2">>), S(<<"abc">>), S(<<"4", "5">>), I(18),
      S(<<"1", "0">>), S(<<"3", "0">>), S(<<"9">>) }

ScoreCells == { I(4), I(0), I(5), NaN }

\* a row of the parsed coffee.guru frame with the given user input cells
ParsedRow(score, bean, grind, flavor, bal) ==
    [Timestamp |-> I(1700000000), Coffee |-> S(<<"1", "5">>), Score |-> score,
     Bean |-> bean, Grinder |-> S(<<"Encore">>), Grind |-> grind,
     Flavor |-> flavor, Balance |-> bal]

ParsedRows ==
    LET bean == S(<<"Kenya">>)
        grind == S(<<"1", "8">>)
        flavor == S(<<"Very", " ", "Sweet">>)
        bal == S(<<"Very", " ", "Heavy">>)
    IN { ParsedRow(I(4), bean, grind, flavor, bal),
         ParsedRow(NaN, bean, grind, flavor, bal),
         ParsedRow(I(4), bean, grind, flavor, NaN),
         ParsedRow(I(4), bean, grind, NaN, NaN),
         ParsedRow(NaN, NaN, NaN, NaN, NaN) }

\* the frames a successful preprocess_data returned
Normalized ==
    {r.logs : r \in {x \in {preprocess_data(b) : b \in Batches("coffee")} :
                       x.kind = "ok"}}

\* the frames preprocess_data is applied to: a downloaded file, or the frame
\* a call of preprocess_data returned
Frames == Batches("coffee") \cup Normalized

LibCall(fn, arg) == [fn |-> fn, arg |-> arg]

LibCalls ==
    {LibCall("check_nan_values", logs) : logs \in SeqsUpTo(ParsedRows, MaxRows)}
    \cup {LibCall("check_scores", SeriesOf(c)) : c \in SeqsUpTo(ScoreCells, MaxRows)}
    \cup {LibCall("validate_text", SeriesOf(c)) : c \in SeqsUpTo(TextCells, MaxRows)}
    \cup {LibCall("validate_grind_settings", SeriesOf(c)) :
            c \in SeqsUpTo(GrindCells, MaxRows)}
    \cup {LibCall("preprocess_data", logs) : logs \in Frames}

NotCalled == [kind |-> "pending"]
NoCall == [fn |-> "none", arg |-> <<>>]
NoErr == [kind |-> "none", step |-> ""]

\* the driver's variables while only the validators are exercised
RunIdle ==
    /\ driver = "none"
    /\ batch = <<>>
    /\ pc = "idle"
    /\ hook = FALSE
    /\ atexitReg = FALSE
    /\ err = NoErr
    /\ norm = NotCalled
    /\ db = [raw |-> FALSE, staging |-> FALSE, final |-> "old"]
    /\ localFile = FALSE
    /\ events = <<>>
    /\ exitStatus = -1

LibInit ==
    /\ call \in LibCalls
    /\ ret = NotCalled
    /\ RunIdle

CallCheckNanValues ==
    /\ call.fn = "check_nan_values" /\ ret = NotCalled
    /\ ret' = check_nan_values(call.arg)
    /\ UNCHANGED <<call, runVars>>

CallCheckScores ==
    /\ call.fn = "check_scores" /\ ret = NotCalled
    /\ ret' = check_scores(call.arg)
    /\ UNCHANGED <<call, runVars>>

CallValidateText ==
    /\ call.fn = "validate_text" /\ ret = NotCalled
    /\ ret' = validate_text(call.arg, adverbs, flavors)
    /\ UNCHANGED <<call, runVars>>

CallValidateGrindSettings ==
    /\ call.fn = "validate_grind_settings" /\ ret = NotCalled
    /\ ret' = validate_grind_settings(call.arg,
                                      grind_setting_ranges[<<"encore">>].min,
                                      grind_setting_ranges[<<"encore">>].max)
    /\ UNCHANGED <<call, runVars>>

CallPreprocessData ==
    /\ call.fn = "preprocess_data" /\ ret = NotCalled
    /\ ret' = preprocess_data(call.arg)
    /\ UNCHANGED <<call, runVars>>

LibNext ==
    \/ CallPreprocessData
    \/ CallCheckNanValues
    \/ CallCheckScores
    \/ CallValidateText
    \/ CallValidateGrindSettings

SpecLib == LibInit /\ [][LibNext]_vars

Returned(fn) == call.fn = fn /\ ret # NotCalled

-----------------------------------------------------------------------------
(* The steps of the drivers *)

Ev(e, arg) == [e |-> e, arg |-> arg]

Exc(kind, step) == [kind |-> kind, step |-> step]

\* upload_log_file: what a call does.  ev: its effects; raised: whether an
\* exception leaves it.  Ev("box_error", m): the upload of the new version
\* raised BoxAPIError with message m.  A BoxAPIError other than 'Not Found'
\* is swallowed; nothing in the handler catches what the calls made for
\* 'Not Found' raise.
upload_log_file ==
    LET called == <<Ev("call", "upload_log_file")>>
        not_found == called \o <<Ev("box_error", "Not Found")>>
    IN { \* the new version is uploaded
         [ev |-> called \o <<Ev("box", "upload_file_version")>>, raised |-> FALSE],
         \* BoxAPIError, not 'Not Found'
         [ev |-> called \o <<Ev("box_error", "other")>>, raised |-> FALSE],
         \* BoxAPIError 'Not Found': upload as a new file, post its file ID
         [ev |-> not_found \o <<Ev("box", "upload_new_file"), Ev("slack", "NEW_FILE_ID")>>,
          raised |-> FALSE],
         \* ... and the post raises
         [ev |-> not_found \o <<Ev("box", "upload_new_file")>>, raised |-> TRUE],
         \* ... or client.as_user(...).folder(...).upload(...) raises
         [ev |-> not_found, raised |-> TRUE],
         \* an exception that is not a BoxAPIError leaves the try block
         [ev |-> called, raised |-> TRUE] }

\* catch_exception(err_type, value, trace): the failure post, then the log
\* upload, then raise err_type; an exception of the post ends the hook
catch_exception(e) ==
    { [ev |-> <<>>, raised |-> TRUE] }
    \cup { [ev |-> <<Ev("slack_fail", e.kind)>> \o u.ev, raised |-> TRUE] :
             u \in upload_log_file }

\* the statements between preprocess_data and the success notification, in
\* order: update_table (coffee.guru), or the staging table, the insert
\* script, the commit and rename_file (Beanconqueror)
persist_steps(d) ==
    IF d = "coffee"
       THEN <<Ev("db", "create"), Ev("db", "staging"), Ev("db", "insert"),
              Ev("db", "commit")>>
       ELSE <<Ev("db", "staging"), Ev("db", "insert"), Ev("db", "commit"),
              Ev("box", "rename_file")>>

\* the database after the steps in done
db_after(old, done) ==
    [raw |-> old.raw,
     staging |-> old.staging \/ Ev("db", "staging") \in Range(done),
     final |-> IF Ev("db", "commit") \in Range(done) THEN "committed"
               ELSE IF Ev("db", "insert") \in Range(done) THEN "inserted"
               ELSE old.final]

\* the success notification: requests.post (coffee.guru) or
\* send_slack_notification(timestamp=, config=, fname=), which raises
\* TypeError as log_utils.send_slack_notification takes no fname
notify(d) ==
    IF d = "coffee"
       THEN { [ev |-> <<Ev("slack_success", "")>>, raised |-> "none"],
              [ev |-> <<>>, raised |-> "RequestException"] }
       ELSE { [ev |-> <<>>, raised |-> "TypeError"] }

\* a driver whose statement after preprocess_data runs whatever it did
persist_regardless(r) == "persist"

\* where control goes after df = preprocess_data(...): an exception leaves
\* __main__, a return reaches the next statement
after_preprocess(r) == IF r.kind = "ok" THEN "persist" ELSE "raise"

\* an uncaught exception: sys.excepthook if catch_exception is installed,
\* Python's default hook otherwise; then the interpreter shuts down
Raise(e) ==
    /\ err' = e
    /\ pc' = IF hook THEN "excepthook" ELSE "exit"

Init ==
    /\ call = NoCall
    /\ ret = NotCalled
    /\ driver \in {"coffee", "beanconqueror"}
    /\ batch = <<>>
    /\ pc = "auth"
    /\ hook = FALSE
    /\ atexitReg = FALSE
    /\ err = NoErr
    /\ norm = NotCalled
    /\ db = [raw |-> FALSE, staging |-> FALSE, final |-> "old"]
    /\ localFile = FALSE
    /\ events = <<>>
    /\ exitStatus = -1

\* start-up to the installation of sys.excepthook: the configuration, the
\* logger, the JWT authentication and the app user lookup
Authenticate ==
    /\ pc = "auth"
    /\ \/ /\ hook' = TRUE
          /\ pc' = "get_file_id"
          /\ err' = err
       \/ /\ Raise(Exc("BoxAPIError", "auth"))
          /\ hook' = hook
    /\ UNCHANGED <<call, ret, driver, batch, atexitReg, norm, db, localFile,
                   events, exitStatus>>

\* get_file_id: the preflight check fails when the file exists (its ID is
\* returned) and succeeds when it does not (RuntimeError)
GetFileId ==
    /\ pc = "get_file_id"
    /\ \/ pc' = "download_file" /\ err' = err
       \/ Raise(Exc("RuntimeError", "get_file_id"))
    /\ UNCHANGED <<call, ret, driver, batch, hook, atexitReg, norm, db,
                   localFile, events, exitStatus>>

\* download_file; the coffee.guru one writes config['local_fname'] and reads
\* it into the frame
DownloadFile ==
    /\ pc = "download_file"
    /\ \/ /\ driver = "coffee"
          /\ batch' \in Batches(driver)
          /\ localFile' = TRUE
          /\ events' = Append(events, Ev("file", "download"))
          /\ pc' = "preprocess_data"
          /\ err' = err
       \/ /\ driver = "beanconqueror"
          /\ pc' = "extract_data"
          /\ UNCHANGED <<batch, localFile, events, err>>
       \/ /\ Raise(Exc("BoxAPIError", "download_file"))
          /\ UNCHANGED <<batch, localFile, events>>
    /\ UNCHANGED <<call, ret, driver, hook, atexitReg, norm, db, exitStatus>>

\* Beanconqueror: unzip_file, json.load, extract_data, then
\* insert_dfs_to_tables, which replaces the beanconqueror_* tables
ExtractData ==
    /\ pc = "extract_data"
    /\ \/ /\ batch' \in Batches(driver)
          /\ db' = [db EXCEPT !.raw = TRUE]
          /\ events' = Append(events, Ev("db", "raw_tables"))
          /\ pc' = "preprocess_data"
          /\ err' = err
       \/ /\ Raise(Exc("KeyError", "extract_data"))
          /\ UNCHANGED <<batch, db, events>>
    /\ UNCHANGED <<call, ret, driver, hook, atexitReg, norm, localFile,
                   exitStatus>>

Preprocess ==
    /\ pc = "preprocess_data"
    /\ \E r \in {IF driver = "coffee" THEN preprocess_data(batch)
                 ELSE beanconqueror_preprocess_data(batch)} :
          /\ norm' = r
          /\ localFile' = (localFile \/ r.wrote)
          /\ events' = IF r.wrote THEN Append(events, Ev("file", "to_csv"))
                       ELSE events
          /\ IF after_preprocess(r) = "persist"
                THEN pc' = "persist" /\ err' = err
                ELSE Raise(Exc(r.kind, "preprocess_data"))
    /\ UNCHANGED <<call, ret, driver, batch, hook, atexitReg, db, exitStatus>>

\* the first k statements succeed; if k is not all of them, the next raises
Persist ==
    /\ pc = "persist"
    /\ \E k \in 0 .. Len(persist_steps(driver)) :
         LET done == SubSeq(persist_steps(driver), 1, k)
         IN /\ events' = events \o done
            /\ db' = db_after(db, done)
            /\ IF k = Len(persist_steps(driver))
                  THEN pc' = "notify" /\ err' = err
                  ELSE Raise(Exc("Error", persist_steps(driver)[k + 1].arg))
    /\ UNCHANGED <<call, ret, driver, batch, hook, atexitReg, norm, localFile,
                   exitStatus>>

\* a driver that registers the exit-time upload before the success post
NotifyAfterRegister ==
    /\ pc = "notify"
    /\ atexitReg' = TRUE
    /\ \E o \in notify(driver) :
         /\ events' = events \o o.ev
         /\ IF o.raised = "none"
               THEN pc' = "atexit_register" /\ err' = err
               ELSE Raise(Exc(o.raised, "notify"))
    /\ UNCHANGED <<call, ret, driver, batch, hook, norm, db, localFile,
                   exitStatus>>

Notify ==
    /\ pc = "notify"
    /\ \E o \in notify(driver) :
         /\ events' = events \o o.ev
         /\ IF o.raised = "none"
               THEN pc' = "atexit_register" /\ err' = err
               ELSE Raise(Exc(o.raised, "notify"))
    /\ UNCHANGED <<call, ret, driver, batch, hook, atexitReg, norm, db,
                   localFile, exitStatus>>

\* the last statement of __main__
AtexitRegister ==
    /\ pc = "atexit_register"
    /\ atexitReg' = TRUE
    /\ pc' = "exit"
    /\ UNCHANGED <<call, ret, driver, batch, hook, err, norm, db, localFile,
                   events, exitStatus>>

\* sys.excepthook(type, value, traceback)
CatchException ==
    /\ pc = "excepthook"
    /\ \E o \in catch_exception(err) : events' = events \o o.ev
    /\ pc' = "exit"
    /\ UNCHANGED <<call, ret, driver, batch, hook, atexitReg, err, norm, db,
                   localFile, exitStatus>>

\* interpreter shutdown: the atexit callbacks run (an exception of one is
\* printed and dropped); the status is 1 after an uncaught exception
Exit ==
    /\ pc = "exit"
    /\ IF atexitReg
          THEN \E o \in upload_log_file : events' = events \o o.ev
          ELSE events' = events
    /\ exitStatus' = IF err = NoErr THEN 0 ELSE 1
    /\ pc' = "done"
    /\ UNCHANGED <<call, ret, driver, batch, hook, atexitReg, err, norm, db,
                   localFile>>

Next ==
    \/ Authenticate
    \/ GetFileId
    \/ DownloadFile
    \/ ExtractData
    \/ Preprocess
    \/ Persist
    \/ Notify
    \/ AtexitRegister
    \/ CatchException
    \/ Exit

Spec == Init /\ [][Next]_vars

-----------------------------------------------------------------------------
(* Claims about a run, checked under Spec *)

Exited == pc = "done"

Count(e) == Cardinality({ i \in 1 .. Len(events) : events[i].e = e })

UploadCalled == Ev("call", "upload_log_file") \in Range(events)

\* C1: on every exit path of a run, an exception during authentication
\* included, the upload of the log file is executed before the process ends
C1_UploadOnEveryExit == Exited => UploadCalled

\* C2: when normalization raises, the insert script is never executed and
\* the final table is left as it was
C2_FailedNormalizationLeavesFinalTable ==
    norm.kind \notin {"pending", "ok"} =>
        /\ db.final = "old"
        /\ Ev("db", "insert") \notin Range(events)

C2_Witness ==
    /\ Exited
    /\ driver = "coffee"
    /\ norm.kind = "ValueError"
    /\ norm.step = "check_scores"
    /\ UploadCalled

\* C3: every error that leaves the driver posts a failure notification with
\* the exception text, then attempts the log upload, and the process ends
\* with a non-zero status
C3_FailureNotifiedThenUploaded ==
    (Exited /\ err # NoErr) =>
        /\ \E i, j \in 1 .. Len(events) :
             /\ i < j
             /\ events[i] = Ev("slack_fail", err.kind)
             /\ events[j] = Ev("call", "upload_log_file")
        /\ exitStatus > 0

\* C4: in a run where acquisition, normalization and persistence succeed
\* there is exactly one success notification and no failure notification,
\* and no success notification precedes the commit
C4_OneSuccessNotification ==
    /\ (Exited /\ db.final = "committed") =>
         /\ Count("slack_success") = 1
         /\ Count("slack_fail") = 0
    /\ \A i \in 1 .. Len(events) :
         events[i].e = "slack_success" =>
           \E j \in 1 .. i - 1 : events[j] = Ev("db", "commit")

\* the checks of both normalizers in the order of their statements
CheckOrder ==
    <<"check_nan_values", "check_scores", "validate_text_flavor",
      "validate_text_balance", "validate_grind_settings">>

\* the columns the checks are applied to, under the coffee.guru names
Checked ==
    IF driver = "coffee" THEN coffee_parse(batch)
    ELSE [i \in 1 .. Len(batch) |->
            [Timestamp |-> batch[i].updated_at,
             Score |-> batch[i].rating,
             Bean |-> batch[i].bean,
             Grinder |-> batch[i].grinder,
             Grind |-> batch[i].grind_size,
             Flavor |-> notes_cell(batch[i].note, BeanconquerorLabels, 1),
             Balance |-> notes_cell(batch[i].note, BeanconquerorLabels, 2)]]

\* every notes cell of the batch has the segments the normalizer names
ExpectedSegments ==
    IF driver = "coffee"
       THEN notes_width(Col(batch, "Note"), CoffeeLabels) = 5
       ELSE notes_width(Col(batch, "note"), BeanconquerorLabels) = 2

Violates(logs, k) ==
    LET bal == Filter(Col(logs, "Balance"),
                      [r \in 0 .. Len(logs) - 1 |->
                         logs[r + 1].Balance # S(<<"Balanced">>)])
    IN CASE k = 1 -> \E r \in 1 .. Len(logs), c \in Range(NanColumns) :
                        isnull(logs[r][c])
         [] k = 2 -> check_scores(Col(logs, "Score")).kind # "ok"
         [] k = 3 -> validate_text(Col(logs, "Flavor"), adverbs, flavors).kind # "ok"
         [] k = 4 -> validate_text(bal, adverbs, balance).kind # "ok"
         [] OTHER -> grinder_loop(logs, unique(ValueList(Col(logs, "Grinder"))),
                                 <<>>).kind # "ok"

\* C5: when a batch violates more than one check, normalization fails at
\* the earliest violated check in the order missing values, score, flavor,
\* balance, grinder range
C5_EarliestViolatedCheckDecides ==
    (norm.kind # "pending" /\ ExpectedSegments) =>
        LET violated == { k \in 1 .. 5 : Violates(Checked, k) }
            first == CHOOSE k \in violated : \A m \in violated : k <= m
        IN Cardinality(violated) >= 2 =>
             /\ norm.kind # "ok"
             /\ norm.step \in
                  IF first = 5 THEN {"grinder_lookup", "validate_grind_settings"}
                  ELSE {CheckOrder[first]}

\* the labels of the notes cell in the order of its segments, and the names
\* the normalizer gives the columns
ExpectedLabels ==
    IF driver = "coffee" THEN <<"Bean:", "Grinder:", "Grind:", "Flavor:", "Balance:">>
    ELSE <<"Flavor:", "Balance:">>

ColumnNames ==
    IF driver = "coffee" THEN <<"Bean", "Grinder", "Grind", "Flavor", "Balance">>
    ELSE <<"flavor", "balance">>

NoteOf(row) == IF driver = "coffee" THEN row.Note ELSE row.note

Trim(s) == rstrip(lstrip(s))

\* segment k of a notes string: the text between the "/" separators
Segment(c, k) == str_split(c.v, "/")[k]

\* exactly as many segments as labels, segment k being label k and a text
WellFormed(c) ==
    /\ c.t = "str"
    /\ \A segs \in {str_split(c.v, "/")} :
          /\ Len(segs) = Len(ExpectedLabels)
          /\ \A k \in 1 .. Len(ExpectedLabels) :
                \A seg \in {Trim(segs[k])} :
                   /\ seg # <<>>
                   /\ Head(seg) = ExpectedLabels[k]
                   /\ \A j \in 2 .. Len(seg) : seg[j] \notin Range(ExpectedLabels)

\* the text of segment k after its label
SegmentText(c, k) == Trim(Tail(Trim(Segment(c, k))))

Parsed == norm.kind # "pending" /\ norm.parsed # <<>>

\* C13: a notes string of exactly N labelled segments (N the number of
\* expected labels) is parsed into N tokens, token k being the text of
\* segment k without its label, held by column k of the fixed name list
C13_TokensInSegmentOrder ==
    (norm.kind # "pending" /\ batch # <<>>
       /\ \A i \in 1 .. Len(batch) : WellFormed(NoteOf(batch[i]))) =>
        /\ norm.step # "parse_notes"
        /\ Len(norm.parsed) = Len(batch)
        /\ \A i \in 1 .. Len(batch), k \in 1 .. Len(ExpectedLabels) :
              LET cell == norm.parsed[i][ColumnNames[k]]
              IN /\ cell.t = "str"
                 /\ Trim(cell.v) = SegmentText(NoteOf(batch[i]), k)

C13_Witness ==
    /\ Parsed /\ driver = "coffee" /\ Len(batch) = 2
    /\ \A i \in 1 .. Len(batch) : WellFormed(NoteOf(batch[i]))
    /\ norm.parsed[1].Grinder = S(<<"Encore">>)
    /\ norm.parsed[2].Flavor = S(<<"Bad", " ", "Sweet">>)

\* no whitespace at either end and no two whitespace characters in a row
Clean(s) ==
    /\ s # <<>> => Head(s) \notin WS /\ s[Len(s)] \notin WS
    /\ \A j \in 1 .. Len(s) - 1 : ~(s[j] \in WS /\ s[j + 1] \in WS)

\* C14: every token the notes parsing produces has no leading and no
\* trailing whitespace and no run of two or more whitespace characters,
\* however much whitespace surrounds the text of a segment
C14_TokensTrimmed ==
    Parsed =>
        \A i \in 1 .. Len(norm.parsed), k \in 1 .. Len(ColumnNames) :
            LET cell == norm.parsed[i][ColumnNames[k]]
            IN cell.t = "str" => Clean(cell.v)

\* more segments in some notes string than the normalizer has columns
ExtraSegments ==
    \E i \in 1 .. Len(batch) :
        /\ NoteOf(batch[i]).t = "str"
        /\ Len(str_split(NoteOf(batch[i]).v, "/")) > Len(ExpectedLabels)

ValidationSteps ==
    {"check_nan_values", "check_scores", "validate_text_flavor",
     "validate_text_balance", "grinder_lookup", "validate_grind_settings"}

\* C15: a batch in which a notes string has more segments than expected
\* fails with a failure of the validation, not with an unrelated error, and
\* its extra segments are not dropped
C15_ExtraSegmentsAreValidationFailure ==
    (norm.kind # "pending" /\ ExtraSegments) =>
        /\ norm.kind = "ValueError"
        /\ norm.step \in ValidationSteps

GrinderOf(row) == IF driver = "coffee" THEN row.Grinder ELSE row.grinder

\* no entry in the range table under the normalized name
UnknownGrinder(c) ==
    c.t = "str" /\ normalize_grinder(lower(c.v)) \notin DOMAIN grind_setting_ranges

\* C16: a grinder without an entry in the range table is a fatal error, and
\* validate_grind_settings is not called on the rows of that grinder
C16_UnknownGrinderBeforeRangeCheck ==
    Parsed =>
        \A i \in 1 .. Len(norm.parsed) :
            UnknownGrinder(GrinderOf(norm.parsed[i])) =>
                /\ norm.kind # "ok"
                /\ GrinderOf(norm.parsed[i]) \notin Range(norm.validated)
                /\ norm.step = "validate_grind_settings" =>
                      ~UnknownGrinder(norm.validated[Len(norm.validated)])

\* a known grinder's rows were checked, then the unknown grinder ended the loop
C16_Witness ==
    /\ Parsed /\ driver = "coffee"
    /\ norm.kind = "ValueError" /\ norm.step = "grinder_lookup"
    /\ norm.validated = <<S(<<"Encore">>)>>
    /\ UnknownGrinder(norm.parsed[2].Grinder)

\* C18: every batch normalization returns has all its scores in the valid
\* range 1 to 5; a batch with a score outside it is never returned
C18_ReturnedScoresInRange ==
    norm.kind = "ok" =>
        \A i \in 1 .. Len(norm.logs) :
            norm.logs[i].Score.t = "int" /\ norm.logs[i].Score.v \in 1 .. 5

-----------------------------------------------------------------------------
(* Claims about the validators, checked under SpecLib *)

\* the message check_nan_values is meant to raise: per required column with a
\* missing value, in the order of the loop, its rows and their timestamps
ExpectedNanMsgs(logs) ==
    LET bad == SelectSeq(NanColumns, LAMBDA c : nan_idx(logs, c) # <<>>)
    IN [i \in 1 .. Len(bad) |->
          [col |-> bad[i], rows |-> nan_idx(logs, bad[i]),
           times |-> nan_times(logs, bad[i])]]

\* C6 (as claimed): the missing-value check fails if and only if a required
\* column has a null, and then raises one ValueError naming exactly the
\* columns with a null and, for each, exactly the rows of its nulls with
\* their timestamps.
C6_MissingValueReport ==
    Returned("check_nan_values") =>
        LET msgs == ExpectedNanMsgs(call.arg)
        IN /\ msgs = <<>> => ret.kind = "ok"
           /\ msgs # <<>> => ret.kind = "ValueError" /\ ret.msgs = msgs

Tokens(c) == str_split(c.v, " ")

IsOneAdverb(c) ==
    c.t = "str" /\ Len(Tokens(c)) = 1 /\ Tokens(c)[1] \in adverbs

IsValidPair(c) ==
    /\ c.t = "str" /\ Len(Tokens(c)) = 2
    /\ Tokens(c)[1] \in adverbs /\ Tokens(c)[2] \in flavors

\* a column of one-adverb cells and valid two-word cells, with one of each
LegacyColumn(col) ==
    /\ \A r \in DOMAIN col : IsOneAdverb(col[r]) \/ IsValidPair(col[r])
    /\ \E r \in DOMAIN col : IsOneAdverb(col[r])
    /\ \E r \in DOMAIN col : IsValidPair(col[r])

HasExtraTokens(c) == c.t = "str" /\ Len(Tokens(c)) >= 3

\* C8 (as claimed): a column with a cell of three or more space-separated
\* tokens fails validate_text with the ValueError of the controlled-text
\* check, and the original value of every such cell is reported.
C8_ExtraTokensReported ==
    (Returned("validate_text")
       /\ \E r \in DOMAIN call.arg : HasExtraTokens(call.arg[r])) =>
        /\ ret.kind = "ValueError"
        /\ \A r \in DOMAIN call.arg :
              HasExtraTokens(call.arg[r]) =>
                 \E q \in DOMAIN ret.rows : ret.rows[q] = call.arg[r]

\* token 0 outside the adverb vocabulary, or token 1 outside the adjective one
Offending(c) ==
    /\ c.t = "str"
    /\ \/ Tokens(c)[1] \notin adverbs
       \/ Len(Tokens(c)) >= 2 /\ Tokens(c)[2] \notin flavors

\* C9 (as claimed): when validate_text fails with its ValueError, every row
\* whose token 0 is outside the adverb vocabulary or whose token 1 is outside
\* the adjective vocabulary is in the reported row -> value set, also a row
\* whose value equals that of another offending row.
C9_EveryOffendingRowNamed ==
    (Returned("validate_text") /\ ret.kind = "ValueError") =>
        \A r \in DOMAIN call.arg :
            Offending(call.arg[r]) =>
                r \in DOMAIN ret.rows /\ ret.rows[r] = call.arg[r]

NonCoercible(col) == {r \in DOMAIN col : ~cast_ok(col[r])}

\* C10 (as claimed): a grind column that is not integer-typed and holds a
\* value that cannot be coerced to an integer fails validate_grind_settings
\* with the non-integer error, which names exactly the non-coercible rows and
\* their values, and no range violation is reported.
C10_OnlyNonCoercibleNamed ==
    (Returned("validate_grind_settings") /\ NonCoercible(call.arg) # {}) =>
        /\ ret.kind = "ValueError"
        /\ ret.what = "non_integer"
        /\ ret.rows = SortedSeq(NonCoercible(call.arg))
        /\ ret.vals = [i \in 1 .. Len(ret.rows) |-> call.arg[ret.rows[i]]]

\* the integer a coercible grind cell stands for
Coerced(c) == IF c.t = "int" THEN c.v ELSE int_of(c.v)

OutOfRange(col, min_val, max_val) ==
    {r \in DOMAIN col : Coerced(col[r]) < min_val \/ Coerced(col[r]) > max_val}

EncoreMin == grind_setting_ranges[<<"encore">>].min
EncoreMax == grind_setting_ranges[<<"encore">>].max

\* C11: when every grind value is an integer or coercible to one,
\* validate_grind_settings fails if and only if a coerced value lies below
\* min or above max (min and max themselves pass), and the failure names
\* exactly the rows outside [min, max] with their values.
C11_RangeCheckInclusive ==
    (Returned("validate_grind_settings") /\ NonCoercible(call.arg) = {}) =>
        LET out == OutOfRange(call.arg, EncoreMin, EncoreMax)
        IN /\ out = {} <=> ret.kind = "ok"
           /\ out # {} =>
                /\ ret.kind = "ValueError"
                /\ ret.what = "out_of_range"
                /\ ret.rows = SortedSeq(out)
                /\ ret.vals = [i \in 1 .. Len(ret.rows) |->
                                 I(Coerced(call.arg[ret.rows[i]]))]

\* a coercible column with a cell at min, a cell at max and a cell above max
C11_Witness ==
    /\ Returned("validate_grind_settings") /\ NonCoercible(call.arg) = {}
    /\ \E r \in DOMAIN call.arg : Coerced(call.arg[r]) = EncoreMin
    /\ \E r \in DOMAIN call.arg : Coerced(call.arg[r]) = EncoreMax
    /\ \E r \in DOMAIN call.arg : Coerced(call.arg[r]) > EncoreMax
    /\ ret.kind = "ValueError" /\ Len(ret.rows) = 1

ZeroRows(col) == {r \in DOMAIN col : col[r] = I(0)}

\* C12: check_scores fails if and only if some score equals 0, and the
\* failure names the row of every zero score and no other row.
C12_ZeroScoresNamed ==
    Returned("check_scores") =>
        /\ ZeroRows(call.arg) = {} <=> ret.kind = "ok"
        /\ ZeroRows(call.arg) # {} =>
             ret.kind = "ValueError" /\ ret.rows = SortedSeq(ZeroRows(call.arg))

\* scores [4, 0, 5] fail naming row 1
C12_Witness ==
    /\ Returned("check_scores")
    /\ call.arg = SeriesOf(<<I(4), I(0), I(5)>>)
    /\ ret.kind = "ValueError" /\ ret.rows = <<1>>

\* C19: normalization applied to a batch that a successful normalization
\* returned succeeds and returns that batch unchanged
C19_NormalizationIdempotent ==
    (Returned("preprocess_data") /\ call.arg \in Normalized) =>
        ret.kind = "ok" /\ ret.logs = call.arg

\* C20: normalization of a batch of zero rows returns an empty batch without
\* raising, and each validator passes on an empty column
C20_EmptyBatchPasses ==
    /\ (Returned("preprocess_data") /\ call.arg = <<>>) =>
          ret.kind = "ok" /\ ret.logs = <<>>
    /\ (ret # NotCalled /\ DOMAIN call.arg = {}
          /\ call.fn \in {"check_nan_values", "check_scores", "validate_text",
                          "validate_grind_settings"}) =>
          ret.kind = "ok"

\* a column of one-word and two-word cells with at least one two-word cell
TwoTokenColumn(col) ==
    /\ \A r \in DOMAIN col : col[r].t = "str" /\ Len(Tokens(col[r])) <= 2
    /\ \E r \in DOMAIN col : Len(Tokens(col[r])) = 2

\* token 0 outside the adverb vocabulary, or no token 1, or token 1 outside
\* the adjective vocabulary
OffendingOrShort(c) == Offending(c) \/ Len(Tokens(c)) < 2

-----------------------------------------------------------------------------
(* Further claims about a run, checked under Spec *)

\* a write to a database table, or to_csv on the local data file (the
\* download that creates the file is not counted)
IsPersistence(ev) == ev.e = "db" \/ ev = Ev("file", "to_csv")

\* C22: no write to a database table or to the local data file happens in a
\* run before the normalization of the run's batch has succeeded
C22_NoWriteBeforeNormalized ==
    (\E i \in 1 .. Len(events) : IsPersistence(events[i])) => norm.kind = "ok"

\* the user-input columns of the joined Beanconqueror frame
UserInputColumns == {"rating", "bean", "grinder", "grind_size", "flavor", "balance"}

HasNullInput(logs) ==
    \E i \in 1 .. Len(logs) : \E c \in UserInputColumns : isnull(logs[i][c])

\* C23: in the Beanconqueror normalizer a batch with a null in a user-input
\* column fails with the missing-value data-quality error (a ValueError
\* raised by check_nan_values)
C23_BeanconquerorNullReported ==
    (/\ driver = "beanconqueror"
     /\ norm.kind # "pending"
     /\ notes_width(Col(batch, "note"), BeanconquerorLabels) = 2
     /\ HasNullInput(beanconqueror_parse(batch))) =>
        /\ norm.kind = "ValueError"
        /\ norm.step = "check_nan_values"

\* a valid adverb followed by a valid balance adjective
IsValidBalance(c) ==
    /\ c.t = "str" /\ Len(Tokens(c)) = 2
    /\ Tokens(c)[1] \in adverbs /\ Tokens(c)[2] \in balance

\* the coffee.guru normalizer got past the flavor check
PastFlavorCheck ==
    /\ driver = "coffee"
    /\ norm.kind # "pending"
    /\ norm.parsed # <<>>
    /\ norm.step \notin {"check_nan_values", "check_scores", "validate_text_flavor"}

C25_AtMostOneUpload ==
    /\ Count("call") <= 1
    /\ atexitReg =>
          /\ err = NoErr
          /\ pc \in {"exit", "done"}
          /\ norm.kind = "ok"
          /\ db.final = "committed"
          /\ Count("slack_success") = 1
    /\ Count("slack_fail") > 0 => err # NoErr
    /\ (Exited /\ atexitReg) => Count("slack_fail") = 0

\* a successful run that ended with the one exit-time upload
C25_Witness ==
    /\ Exited
    /\ atexitReg
    /\ exitStatus = 0
    /\ Count("call") = 1

\* what follows events[i] within the same call of upload_log_file
RestOfCall(i) ==
    LET later == { j \in i + 1 .. Len(events) : events[j].e = "call" }
        last == IF later = {} THEN Len(events)
                ELSE (CHOOSE j \in later : \A k \in later : j <= k) - 1
    IN SubSeq(events, i + 1, last)

\* C26: upload_log_file does not propagate a BoxAPIError of the upload of
\* the new file version: for the message 'Not Found' it uploads the log as
\* a new file, posts one notification with the new file ID and returns; for
\* any other message it returns with no upload and no notification
C26_UploadErrorHandled ==
    \A i \in 1 .. Len(events) :
          events[i].e = "box_error" =>
             IF events[i].arg = "Not Found"
                THEN RestOfCall(i) =
                        <<Ev("box", "upload_new_file"), Ev("slack", "NEW_FILE_ID")>>
                ELSE RestOfCall(i) = <<>>

====
